---- MODULE Spec2Model ----
(***************************************************************************)
(* Dataset generation (simulation/dataset_generator.py) and the            *)
(* perturbation-similarity analysis                                        *)
(* (simulation_similarity_analysis/dataset_processing.py, metrics.py).     *)
(*                                                                         *)
(* The dataset directory is a map from file names to a content tag.  A     *)
(* snapshot name is the text DATA_NAME.format(i, type, t); it is kept as   *)
(* the three fields the resumption pattern recovers from it, with the      *)
(* sample index as the digit string str(i).  Real parameter values,        *)
(* differences and tolerances of the analysis are integers in a fixed      *)
(* unit (a value 1.5 in units of 0.5 is 3).                                *)
(***************************************************************************)
EXTENDS Integers, Sequences, FiniteSets, TLC

(* ------------------------------ bounds -------------------------------- *)
\* n_samples of the DatasetGenerator
NSamples == 2
\* the largest process_number handed to a pool
MaxProc == 2
\* the runs of one behaviour: a first run and the run that follows it
RunNumbers == {1, 2}
\* the generation units that stop early in one behaviour: one fault
StopNumbers == {1}
\* start_draw and interval of the DatasetGenerator (interval in hours, >= 1)
StartDraw == 1
Interval == 2
\* the values n_draw takes
DrawCounts == {1, 2}

(* ------------------------ program constants --------------------------- *)
\* the four channels of one draw, in the order the sample dict holds them
ChannelTypes == <<"cells_types", "cells_densities", "oxygen", "glucose">>
\* the 4 of "self.n_draw * 4"
ChannelCount == 4

VARIABLES
    files,            \* dataset directory: file name -> "whole" | "truncated"
    n_draw,           \* self.n_draw
    runs,             \* runs started so far
    mode,             \* "none" | "seq" | "multi" | "resume"
    pc,               \* "idle" | "running" | "done" | "failed" | "raised"
    process_number,   \* pool size of the run
    all_files,        \* the listing the resumption scan took (names)
    missing_samples,  \* the indices handed to the pool / the loop
    unit,             \* sample index -> state of its generation unit
    written,          \* names np.save was called on during the current run
    stops,            \* generation units that stopped early so far
    writers,          \* file name -> the units that called np.save on it in this run
    started,          \* sample index -> generation units started for it in this run
    dataset,          \* analysis: parameter column, sample index -> value
    metric,           \* analysis: the Metric member passed to the call
    difference, tol, iteration,   \* analysis: arguments of the call
    spc,              \* analysis: position in similarity_between_matrix_per_difference
    possible_param_values,        \* analysis: array of distinct values
    pairs_different_param,        \* analysis: value pairs found
    loop_i,                       \* analysis: index of the for loop
    all_indexes_pairs,            \* analysis: <<>> wrapped None, or the pair array
    sampled,                      \* analysis: pairs after random choice
    results,                      \* analysis: metric results of the pool
    scalar_csv,                   \* scalar_similarity.csv: absent or its rows
    writes,                       \* scalar rows written so far
    last_write,                   \* key -> the mean/std last written for it
    inserted,                     \* keys in the order of their first write
    matrix_npy,                   \* mean_*.npy / std_*.npy files: name -> array
    parameter_data,               \* generate_parameters: rows of the range table
    parameters_of_interest,       \* generate_parameters: names that vary
    parameters,                   \* generate_parameters: the dict being filled
    row_i,                        \* generate_parameters: rows processed
    ppc,                          \* generate_parameters: "off" | "loop" | "returned"
    parameter,                    \* generate_sample: index of the row it is given
    simu_time,                    \* generate_sample: hours the simulation has advanced
    sample,                       \* generate_sample: the dict, as a list of (key, draw)
    draw_i,                       \* generate_sample: the loop variable i
    gpc,                          \* generate_sample: "off" | "idle" | "loop" | "returned"
    image1, image2,               \* dice_function: the two grids
    dice_value,                   \* dice_function: the value returned, a fraction
    mpc                           \* dice_function: "off" | "call" | "returned"

genVars == <<files, n_draw, runs, mode, pc, process_number, all_files,
             missing_samples, unit, written, stops, writers, started>>
simVars == <<dataset, metric, difference, tol, iteration, spc, possible_param_values,
             pairs_different_param, loop_i, all_indexes_pairs, sampled, results>>
tabVars == <<scalar_csv, writes, last_write, inserted, matrix_npy>>
parVars == <<parameter_data, parameters_of_interest, parameters, row_i, ppc>>
smpVars == <<parameter, simu_time, sample, draw_i, gpc>>
metVars == <<image1, image2, dice_value, mpc>>
restVars == <<parVars, smpVars, metVars>>
vars == <<genVars, simVars, tabVars, restVars>>

(* ===================== simulation/dataset_generator.py ================= *)

Samples == 0 .. NSamples - 1

\* str(i): the decimal digits of a sample index
Str(i) == IF i < 10 THEN <<i>> ELSE <<i \div 10, i % 10>>

\* mutant: the sample index left out of the name
DataNameShared(i, type, t) == [match |-> TRUE, itxt |-> <<0>>, type |-> type, time |-> t]

\* DATA_NAME.format(i, type, t), as the fields the scan pattern recovers
DataName(i, type, t) == [match |-> TRUE, itxt |-> Str(i), type |-> type, time |-> t]

\* DATASET_FILE_NAME, the parameter table
DatasetFileName == [match |-> FALSE, itxt |-> <<>>, type |-> "dataset.csv", time |-> 0]

\* a directory entry the pattern image(\d+)_type=(\w+)_time=(\d+)\.npy does not match
OtherFile == [match |-> FALSE, itxt |-> <<>>, type |-> "notes.txt", time |-> 0]

\* mutant: the draw index left out of the key
DrawTimeFixed(k) == StartDraw

\* mutant: the key of the draw that follows
DrawTimeShifted(k) == StartDraw + (k + 1) * Interval

\* the key of draw k (0-based) in generate_sample
DrawTime(k) == StartDraw + k * Interval

\* the keys of the dict generate_sample returns, in insertion order: a key
\* assigned twice keeps its first position
SampleTimes(nd) ==
    LET all == [k \in 1 .. nd |-> DrawTime(k - 1)]
        first(k) == \A j \in 1 .. k - 1 : all[j] # all[k]
        F[k \in 0 .. nd] ==
            IF k = 0 THEN <<>>
            ELSE IF first(k) THEN Append(F[k - 1], all[k]) ELSE F[k - 1]
    IN F[nd]

\* the names one generation unit saves, in the order of its two loops
UnitFiles(i, nd) ==
    LET ts == SampleTimes(nd)
    IN [j \in 1 .. Len(ts) * Len(ChannelTypes) |->
          DataName(i, ChannelTypes[((j - 1) % Len(ChannelTypes)) + 1],
                   ts[((j - 1) \div Len(ChannelTypes)) + 1])]

Range(s) == {s[j] : j \in DOMAIN s}

\* Counter(...).get(str(sample), 0) over a listing
CountOf(listing, i) == Cardinality({f \in listing : f.itxt = Str(i)})

\* mutant: every index resubmitted
MissingSamplesAll(listing, nd) == Samples

\* the missing_samples list comprehension
MissingSamples(listing, nd) ==
    {i \in Samples : CountOf(listing, i) # nd * ChannelCount}

NoUnits == [i \in Samples |-> [st |-> "idle", k |-> 0]]

Put(fs, name, content) == [n \in DOMAIN fs \cup {name} |->
                              IF n = name THEN content ELSE fs[n]]

\* no np.save yet in this run, no unit started
NoWriters == << >>
NoneStarted == [i \in Samples |-> 0]

\* the unit of sample i called np.save on `name`
Saved(ws, name, i) ==
    Put(ws, name, (IF name \in DOMAIN ws THEN ws[name] ELSE {}) \cup {i})

Running == {i \in Samples : unit[i].st = "writing"}
Pending == {i \in Samples : unit[i].st = "pending"}

\* the start of a full generation: makedirs, generate_parameters, to_csv,
\* every index submitted
StartFull(m, p) ==
    /\ pc = "idle" /\ runs + 1 \in RunNumbers
    /\ runs' = runs + 1 /\ mode' = m /\ pc' = "running"
    /\ process_number' = p
    /\ files' = Put(files, DatasetFileName, "whole")
    /\ written' = {DatasetFileName}
    /\ missing_samples' = Samples
    /\ unit' = [i \in Samples |-> [st |-> "pending", k |-> 0]]
    /\ writers' = NoWriters /\ started' = NoneStarted
    /\ UNCHANGED <<n_draw, all_files, stops, simVars, tabVars, restVars>>

\* generate_dataset up to its for loop
StartSequential == StartFull("seq", 1)

\* generate_dataset_multi_process up to pool.map
StartMultiProcess(p) == StartFull("multi", p)

\* generate_missing_multi_process up to pool.map: read_csv, listdir, remove,
\* the Counter over the pattern's first group, the missing list
StartMissing(p) ==
    /\ pc = "idle" /\ runs + 1 \in RunNumbers
    /\ runs' = runs + 1 /\ mode' = "resume"
    /\ process_number' = p
    /\ written' = {}
    /\ writers' = NoWriters /\ started' = NoneStarted
    /\ IF DatasetFileName \notin DOMAIN files
       THEN \* pd.read_csv raises FileNotFoundError
            /\ pc' = "raised"
            /\ all_files' = {} /\ missing_samples' = {} /\ unit' = NoUnits
       ELSE /\ all_files' = DOMAIN files \ {DatasetFileName}
            /\ IF \E f \in all_files' : ~f.match
               THEN \* re.findall(pattern, file)[0] raises IndexError
                    /\ pc' = "raised"
                    /\ missing_samples' = {} /\ unit' = NoUnits
               ELSE /\ pc' = "running"
                    /\ missing_samples' = MissingSamples(all_files', n_draw)
                    /\ unit' = [i \in Samples |->
                                 IF i \in MissingSamples(all_files', n_draw)
                                 THEN [st |-> "pending", k |-> 0]
                                 ELSE [st |-> "idle", k |-> 0]]
    /\ UNCHANGED <<files, n_draw, stops, simVars, tabVars, restVars>>

\* a worker (or the loop) takes the next index: row = df.iloc[i] and
\* generate_sample(row) returns; tasks are taken in submission order
StartUnit(i) ==
    /\ pc = "running" /\ unit[i].st = "pending"
    /\ \A j \in Pending : i <= j
    /\ Cardinality(Running) < process_number
    /\ unit' = [unit EXCEPT ![i] = [st |-> "writing", k |-> 0]]
    /\ started' = [started EXCEPT ![i] = @ + 1]
    /\ UNCHANGED <<files, n_draw, runs, mode, pc, process_number, all_files,
                   missing_samples, written, stops, writers, simVars, tabVars, restVars>>

\* the end of a generation unit that stops early: it ends a sequential run
\* at once, a pool goes on with the other indices
Stopped(i) ==
    /\ stops + 1 \in StopNumbers /\ stops' = stops + 1
    /\ unit' = [unit EXCEPT ![i].st = "failed"]
    /\ pc' = IF mode = "seq" THEN "failed" ELSE pc

\* generate_sample raises: the unit ends before its first np.save
SampleRaises(i) ==
    /\ pc = "running" /\ unit[i].st = "pending"
    /\ \A j \in Pending : i <= j
    /\ Cardinality(Running) < process_number
    /\ Stopped(i)
    /\ started' = [started EXCEPT ![i] = @ + 1]
    /\ UNCHANGED <<files, n_draw, runs, mode, process_number, all_files,
                   missing_samples, written, writers, simVars, tabVars, restVars>>

\* one np.save(path, matrix) of the unit of sample i
SaveFile(i) ==
    /\ pc = "running" /\ unit[i].st = "writing"
    /\ LET fs == UnitFiles(i, n_draw)
           k == unit[i].k + 1
       IN /\ k <= Len(fs)
          /\ files' = Put(files, fs[k], "whole")
          /\ written' = written \cup {fs[k]}
          /\ writers' = Saved(writers, fs[k], i)
          /\ unit' = [unit EXCEPT ![i] = [st |-> IF k = Len(fs) THEN "done" ELSE "writing",
                                          k |-> k]]
    /\ UNCHANGED <<n_draw, runs, mode, pc, process_number, all_files,
                   missing_samples, stops, started, simVars, tabVars, restVars>>

\* the unit is stopped between two np.save calls (exception, kill)
UnitKilled(i) ==
    /\ pc = "running" /\ unit[i].st = "writing"
    /\ Stopped(i)
    /\ UNCHANGED <<files, n_draw, runs, mode, process_number, all_files,
                   missing_samples, written, writers, started, simVars, tabVars, restVars>>

\* np.save opens the file and is cut short: the file exists, truncated
SaveTruncated(i) ==
    /\ pc = "running" /\ unit[i].st = "writing"
    /\ LET fs == UnitFiles(i, n_draw)
           k == unit[i].k + 1
       IN /\ k <= Len(fs)
          /\ files' = Put(files, fs[k], "truncated")
          /\ written' = written \cup {fs[k]}
          /\ writers' = Saved(writers, fs[k], i)
    /\ Stopped(i)
    /\ UNCHANGED <<n_draw, runs, mode, process_number, all_files,
                   missing_samples, started, simVars, tabVars, restVars>>

\* the loop ends / pool.map returns (or re-raises a worker's exception)
RunEnds ==
    /\ pc = "running"
    /\ \A i \in Samples : unit[i].st \in {"idle", "done", "failed"}
    /\ pc' = IF \E i \in Samples : unit[i].st = "failed" THEN "failed" ELSE "done"
    /\ UNCHANGED <<files, n_draw, runs, mode, process_number, all_files,
                   missing_samples, unit, written, stops, writers, started,
                   simVars, tabVars, restVars>>

\* the process ends: only the directory is left for the next run
ProcessExit ==
    /\ pc \in {"done", "failed", "raised"}
    /\ pc' = "idle" /\ mode' = "none" /\ process_number' = 1
    /\ all_files' = {} /\ missing_samples' = {} /\ unit' = NoUnits /\ written' = {}
    /\ writers' = NoWriters /\ started' = NoneStarted
    /\ UNCHANGED <<files, n_draw, runs, stops, simVars, tabVars, restVars>>


(* ======== simulation_similarity_analysis/dataset_processing.py ========= *)

\* rows of the analysed dataset.csv, and the inputs of one call
NRows == 3
ParamValues == {1, 2, 3}
Differences == {0, 1, 2}
Tolerances == {0, 1}
Iterations == {0, 1, 2}

Rows == 0 .. NRows - 1

Abs(x) == IF x < 0 THEN -x ELSE x

\* every ordering of a finite set as a sequence: list(set(...)) fixes none
Orderings(S) ==
    {s \in [1 .. Cardinality(S) -> S] : \A v \in S : \E j \in DOMAIN s : s[j] = v}

\* get_possible_param_values: the set of the column's values, as an array
PossibleParamValues == Orderings({dataset[r] : r \in Rows})

\* mutant: the absolute value of the value difference left out
DiffMaskSigned(a, d, t, p, q) == Abs((a[p] - a[q]) - d) <= t

\* mask[p, q] of find_value_pairs
DiffMask(a, d, t, p, q) == Abs(Abs(a[p] - a[q]) - d) <= t

\* mutant: the row filter left out
UpperTriangleDropped(p, q) == TRUE

\* the row filter indices[:, 0] <= indices[:, 1] of find_value_pairs
UpperTriangle(p, q) == p <= q

\* find_value_pairs: argwhere lists the mask row by row; a[indices] gives
\* the value pairs in that order
FindValuePairs(a, d, t) ==
    LET n == Len(a)
        P(k) == ((k - 1) \div n) + 1
        Q(k) == ((k - 1) % n) + 1
        F[k \in 0 .. n * n] ==
            IF k = 0 THEN <<>>
            ELSE IF DiffMask(a, d, t, P(k), Q(k)) /\ UpperTriangle(P(k), Q(k))
                 THEN Append(F[k - 1], <<a[P(k)], a[Q(k)]>>)
                 ELSE F[k - 1]
    IN F[n * n]

\* get_all_indexes: the index labels whose value equals `value`, ascending
GetAllIndexes(value) ==
    LET F[r \in -1 .. NRows - 1] ==
            IF r = -1 THEN <<>>
            ELSE IF dataset[r] = value THEN Append(F[r - 1], r) ELSE F[r - 1]
    IN F[NRows - 1]

\* meshgrid + flatten + stack: v1 varies fastest, v2 slowest
MeshPairs(ix1, ix2) ==
    [k \in 1 .. Len(ix1) * Len(ix2) |->
        <<ix1[((k - 1) % Len(ix1)) + 1], ix2[((k - 1) \div Len(ix1)) + 1]>>]

\* mutant: self-pairs kept
DropSelfPairsKept(ps) == ps

\* pairs[pairs[:, 0] != pairs[:, 1]]
DropSelfPairs(ps) == SelectSeq(ps, LAMBDA x : x[1] # x[2])

\* np.sort(pairs, axis=1)
SortEachPair(ps) ==
    [k \in DOMAIN ps |-> IF ps[k][1] <= ps[k][2] THEN ps[k] ELSE <<ps[k][2], ps[k][1]>>]

PairLess(x, y) == x[1] < y[1] \/ (x[1] = y[1] /\ x[2] < y[2])

\* np.unique(pairs, axis=0): the distinct rows in lexicographic order
UniqueRows(ps) ==
    LET S == {ps[k] : k \in DOMAIN ps}
        F[T \in SUBSET S] ==
            IF T = {} THEN <<>>
            ELSE LET m == CHOOSE x \in T : \A y \in T \ {x} : PairLess(x, y)
                 IN <<m>> \o F[T \ {m}]
    IN F[S]

\* the body of the for loop for one value pair, up to np.unique
IndexPairs(different_pair) ==
    UniqueRows(SortEachPair(DropSelfPairs(
        MeshPairs(GetAllIndexes(different_pair[1]), GetAllIndexes(different_pair[2])))))

NoneArr == [none |-> TRUE, arr |-> <<>>]
Arr(a) == [none |-> FALSE, arr |-> a]

(* one float of a metric result: a number, NaN or +inf *)
Num(v) == [nan |-> FALSE, inf |-> FALSE, v |-> v]
NaN == [nan |-> TRUE, inf |-> FALSE, v |-> 0]
PosInf == [nan |-> FALSE, inf |-> TRUE, v |-> 0]
ResultValues == {Num(1), Num(3), NaN}

\* Metric.__str__ of the two members modelled
MetricStr(m) == IF m = "IMAGE_ABSOLUTE_DIFFERENCE" THEN "image absolute difference"
                ELSE "mean absolute error"

\* the shape of one snapshot
GridShape == <<1, 2>>

\* a per-pixel result: np.absolute(a - b), row-major
Grid(cells) == [shape |-> GridShape, cells |-> cells]

IsGrid(x) == "shape" \in DOMAIN x

Product(shape) ==
    LET F[k \in 0 .. Len(shape)] == IF k = 0 THEN 1 ELSE F[k - 1] * shape[k]
    IN F[Len(shape)]

\* np.array(results): the list of per-pair results as one array
ArrayOf(rs) ==
    LET F[k \in 0 .. Len(rs)] ==
            IF k = 0 THEN <<>>
            ELSE IF IsGrid(rs[k]) THEN F[k - 1] \o rs[k].cells ELSE Append(F[k - 1], rs[k])
    IN [shape |-> IF Len(rs) > 0 /\ IsGrid(rs[1]) THEN <<Len(rs)>> \o rs[1].shape
                  ELSE <<Len(rs)>>,
        cells |-> F[Len(rs)]]

\* the elements a boolean mask ~np.isnan keeps, in row-major order
DropNaN(rs) == SelectSeq(rs, LAMBDA x : ~x.nan)

\* results[~np.isnan(results)]: indexing with a mask of the array's own
\* shape gives a 1-D array whatever the shape was
MaskSelect(arr) == [shape |-> <<Len(DropNaN(arr.cells))>>, cells |-> DropNaN(arr.cells)]

SumOf(rs) ==
    LET F[k \in 0 .. Len(rs)] == IF k = 0 THEN 0 ELSE F[k - 1] + rs[k].v
    IN F[Len(rs)]

SumSq(rs) ==
    LET F[k \in 0 .. Len(rs)] == IF k = 0 THEN 0 ELSE F[k - 1] + rs[k].v * rs[k].v
    IN F[Len(rs)]

NaNStat == [nan |-> TRUE, inf |-> FALSE, num |-> 0, den |-> 1]
InfStat == [nan |-> FALSE, inf |-> TRUE, num |-> 0, den |-> 1]

\* np.mean: sum / count as the fraction <<num, den>>; NaN for an empty array
\* (a RuntimeWarning, no exception) or a NaN element, +inf when an element is
Mean(rs) ==
    IF Len(rs) = 0 \/ (\E k \in DOMAIN rs : rs[k].nan) THEN NaNStat
    ELSE IF \E k \in DOMAIN rs : rs[k].inf THEN InfStat
    ELSE [nan |-> FALSE, inf |-> FALSE, num |-> SumOf(rs), den |-> Len(rs)]

\* np.std: the square root of the fraction <<num, den>>; NaN for an empty
\* array and when an element is NaN or +inf (inf - inf)
Std(rs) ==
    IF Len(rs) = 0 \/ (\E k \in DOMAIN rs : rs[k].nan \/ rs[k].inf) THEN NaNStat
    ELSE [nan |-> FALSE, inf |-> FALSE,
          num |-> Len(rs) * SumSq(rs) - SumOf(rs) * SumOf(rs),
          den |-> Len(rs) * Len(rs)]

\* element j of every sub-array along axis 0
AlongAxis0(arr, j) ==
    LET m == Product(Tail(arr.shape))
    IN [k \in 1 .. arr.shape[1] |-> arr.cells[(k - 1) * m + j]]

\* np.mean(results, axis=0) and np.std(results, axis=0): elementwise over
\* the first axis; the result has the shape of one sub-array
MeanAxis0(arr) ==
    [shape |-> Tail(arr.shape),
     cells |-> [j \in 1 .. Product(Tail(arr.shape)) |-> Mean(AlongAxis0(arr, j))]]

StdAxis0(arr) ==
    [shape |-> Tail(arr.shape),
     cells |-> [j \in 1 .. Product(Tail(arr.shape)) |-> Std(AlongAxis0(arr, j))]]


(* ---------------------- scalar_similarity.csv -------------------------- *)

\* the writes to the scalar table in one behaviour
MaxWrites == 3

\* [metric.__str__(), timestep, img_type, parameter, difference] of a row
KeyOf(metric_str, timestep, img_type, param, diff) ==
    <<metric_str, timestep, img_type, param, diff>>

\* the key of the modelled call: the metric and the difference vary
CallKey(diff) == KeyOf(MetricStr(metric), 350, "oxygen", "cell_cycle", diff)

\* keys of the scalar metrics
TableKeys == {KeyOf("mean absolute error", 350, "oxygen", "cell_cycle", d) : d \in Differences}
             \cup {KeyOf("correlation", 350, "oxygen", "cell_cycle", 0)}

\* keys of every call
AllKeys == TableKeys \cup
           {KeyOf("image absolute difference", 350, "oxygen", "cell_cycle", d) : d \in Differences}

\* mean_{metric}_{timestep}_{img_type}_{parameter}_{difference}.npy and std_...
MatrixName(prefix, key) == <<prefix>> \o key

\* the keys in the order of their first write
Inserted(ins, key) == IF \E k \in DOMAIN ins : ins[k] = key THEN ins ELSE Append(ins, key)

Absent == [exists |-> FALSE, rows |-> <<>>]

\* scalar_similarity.loc[-1] = [...]: the row labelled -1 is set, appended
\* last when no row has that label
SetRowMinusOne(rows, key, mean, std) ==
    LET new == [idx |-> -1, key |-> key, mean |-> mean, std |-> std]
    IN IF \E k \in DOMAIN rows : rows[k].idx = -1
       THEN [k \in DOMAIN rows |-> IF rows[k].idx = -1 THEN new ELSE rows[k]]
       ELSE Append(rows, new)

\* scalar_similarity.index = scalar_similarity.index + 1
ShiftIndex(rows) == [k \in DOMAIN rows |-> [rows[k] EXCEPT !.idx = @ + 1]]

\* mutant: keep='first'
KeptRowFirst(rows, k) == \A j \in DOMAIN rows : j < k => rows[j].key # rows[k].key

\* keep='last' of drop_duplicates: the row of a key that stays
KeptRow(rows, k) == \A j \in DOMAIN rows : j > k => rows[j].key # rows[k].key

\* drop_duplicates(subset=[the five key columns], keep='last')
DropDuplicates(rows) ==
    LET F[k \in 0 .. Len(rows)] ==
            IF k = 0 THEN <<>>
            ELSE IF KeptRow(rows, k) THEN Append(F[k - 1], rows[k]) ELSE F[k - 1]
    IN F[Len(rows)]

\* sort_index(): ascending index label, rows of one label in their order
SortIndex(rows) ==
    LET Before(a, b) == rows[a].idx < rows[b].idx \/ (rows[a].idx = rows[b].idx /\ a < b)
        F[T \in SUBSET DOMAIN rows] ==
            IF T = {} THEN <<>>
            ELSE LET m == CHOOSE a \in T : \A b \in T \ {a} : Before(a, b)
                 IN <<rows[m]>> \o F[T \ {m}]
    IN F[DOMAIN rows]

\* the else branch of the persistence: read_csv (or an empty frame), the
\* row set, the index shift, drop_duplicates, sort_index, to_csv
UpsertScalar(table, key, mean, std) ==
    [exists |-> TRUE,
     rows |-> SortIndex(DropDuplicates(ShiftIndex(
                  SetRowMinusOne(table.rows, key, mean, std))))]

(* ------------- similarity_between_matrix_per_difference ---------------- *)

\* get_possible_param_values, find_value_pairs
FindPairs ==
    /\ spc = "start"
    /\ \E a \in PossibleParamValues :
          /\ possible_param_values' = a
          /\ pairs_different_param' = FindValuePairs(a, difference, tol)
    /\ loop_i' = 0 /\ all_indexes_pairs' = NoneArr /\ spc' = "loop"
    /\ UNCHANGED <<dataset, metric, difference, tol, iteration, sampled, results,
                   genVars, tabVars, restVars>>

\* one iteration of the for loop over pairs_different_param
LoopStep ==
    /\ spc = "loop" /\ loop_i < Len(pairs_different_param)
    /\ LET pairs == IndexPairs(pairs_different_param[loop_i + 1])
       IN all_indexes_pairs' = IF loop_i = 0 THEN Arr(pairs)
                                ELSE Arr(all_indexes_pairs.arr \o pairs)
    /\ loop_i' = loop_i + 1
    /\ UNCHANGED <<dataset, metric, difference, tol, iteration, spc, possible_param_values,
                   pairs_different_param, sampled, results, genVars, tabVars, restVars>>

\* np.random.choice(len(all_indexes_pairs), size=iteration, replace=True)
\* and the fancy index: len(None) raises TypeError; an empty population
\* raises ValueError unless no sample is taken
RandomChoice ==
    /\ spc = "loop" /\ loop_i = Len(pairs_different_param)
    /\ IF all_indexes_pairs.none \/ (Len(all_indexes_pairs.arr) = 0 /\ iteration # 0)
       THEN /\ spc' = "error" /\ UNCHANGED sampled
       ELSE /\ \E random_indices \in [1 .. iteration -> 1 .. Len(all_indexes_pairs.arr)] :
                 sampled' = [k \in 1 .. iteration |-> all_indexes_pairs.arr[random_indices[k]]]
            /\ spc' = "map"
    /\ UNCHANGED <<dataset, metric, difference, tol, iteration, possible_param_values,
                   pairs_different_param, loop_i, all_indexes_pairs, results,
                   genVars, tabVars, restVars>>

\* pool.map(function, all_indexes_pairs): the metric of the two snapshots
\* of each pair, one value per pair of samples
PoolMap ==
    /\ spc = "map"
    /\ \E m \in [Range(sampled) -> ResultValues] :
          results' = [k \in DOMAIN sampled |-> m[sampled[k]]]
    /\ spc' = "persist"
    /\ UNCHANGED <<dataset, metric, difference, tol, iteration, possible_param_values,
                   pairs_different_param, loop_i, all_indexes_pairs, sampled,
                   genVars, tabVars, restVars>>

\* the NaN filter, mean, std and the persistence with its branch on
\* len(mean.shape)
Persist ==
    /\ spc = "persist"
    /\ LET kept == MaskSelect(ArrayOf(results))
           mean == MeanAxis0(kept)
           std == StdAxis0(kept)
           key == CallKey(difference)
       IN IF Len(mean.shape) = 2
          THEN /\ matrix_npy' = Put(Put(matrix_npy, MatrixName("mean", key), mean),
                                    MatrixName("std", key), std)
               /\ UNCHANGED <<scalar_csv, last_write, writes, inserted>>
          ELSE /\ scalar_csv' = UpsertScalar(scalar_csv, key, mean.cells[1], std.cells[1])
               /\ last_write' = [last_write EXCEPT ![key] =
                                    [set |-> TRUE, mean |-> mean.cells[1], std |-> std.cells[1]]]
               /\ writes' = writes + 1
               /\ inserted' = Inserted(inserted, key)
               /\ UNCHANGED matrix_npy
    /\ spc' = "done"
    /\ UNCHANGED <<dataset, metric, difference, tol, iteration, possible_param_values,
                   pairs_different_param, loop_i, all_indexes_pairs, sampled, results,
                   genVars, restVars>>

\* a scalar result of any call reaching the else branch of the persistence
TableMeans == {Mean(<<>>), Mean(<<Num(1)>>), Mean(<<Num(3)>>)}
TableStds == {Std(<<>>), Std(<<Num(1)>>)}

WriteScalar(key, mean, std) ==
    /\ spc = "table" /\ writes < MaxWrites
    /\ scalar_csv' = UpsertScalar(scalar_csv, key, mean, std)
    /\ last_write' = [last_write EXCEPT ![key] = [set |-> TRUE, mean |-> mean, std |-> std]]
    /\ writes' = writes + 1
    /\ inserted' = Inserted(inserted, key)
    /\ UNCHANGED <<matrix_npy, simVars, genVars, restVars>>

(* --------------------------- specifications ---------------------------- *)

NoWrite == [set |-> FALSE, mean |-> Mean(<<>>), std |-> Std(<<>>)]

SimIdle ==
    /\ dataset = [r \in Rows |-> 1]
    /\ metric = "MEAN_ABSOLUTE_ERROR"
    /\ difference = 0 /\ tol = 0 /\ iteration = 0
    /\ spc = "idle"
    /\ possible_param_values = <<>> /\ pairs_different_param = <<>>
    /\ loop_i = 0 /\ all_indexes_pairs = NoneArr
    /\ sampled = <<>> /\ results = <<>>

TabIdle ==
    /\ scalar_csv = Absent /\ writes = 0
    /\ last_write = [k \in AllKeys |-> NoWrite]
    /\ inserted = <<>> /\ matrix_npy = << >>

\* generate_parameters, generate_sample and dice_function not called
ParIdle ==
    /\ parameter_data = <<>> /\ parameters_of_interest = {}
    /\ parameters = << >> /\ row_i = 0 /\ ppc = "off"

SmpIdle ==
    /\ parameter = 0 /\ simu_time = 0 /\ sample = <<>> /\ draw_i = 0 /\ gpc = "off"

MetIdle ==
    /\ image1 = <<>> /\ image2 = <<>> /\ dice_value = [num |-> 0, den |-> 1] /\ mpc = "off"

GenIdle ==
    /\ files = << >> /\ n_draw = 1 /\ runs = 0
    /\ mode = "none" /\ pc = "off" /\ process_number = 1
    /\ all_files = {} /\ missing_samples = {} /\ unit = NoUnits /\ written = {}
    /\ writers = NoWriters /\ started = NoneStarted
    /\ stops = 0

\* a generator on a directory that does not exist yet
InitGen ==
    /\ files = << >> /\ runs = 0
    /\ n_draw \in DrawCounts
    /\ mode = "none" /\ pc = "idle" /\ process_number = 1
    /\ all_files = {} /\ missing_samples = {} /\ unit = NoUnits /\ written = {}
    /\ writers = NoWriters /\ started = NoneStarted
    /\ stops = 0
    /\ SimIdle /\ TabIdle /\ ParIdle /\ SmpIdle /\ MetIdle

NextGen ==
    \/ StartSequential
    \/ \E p \in 1 .. MaxProc : StartMultiProcess(p)
    \/ \E p \in 1 .. MaxProc : StartMissing(p)
    \/ \E i \in Samples : StartUnit(i)
    \/ \E i \in Samples : SampleRaises(i)
    \/ \E i \in Samples : SaveFile(i)
    \/ \E i \in Samples : UnitKilled(i)
    \/ \E i \in Samples : SaveTruncated(i)
    \/ RunEnds
    \/ ProcessExit

SpecGen == InitGen /\ [][NextGen]_vars

\* the snapshot names of sample i a directory may hold before a resumption:
\* the first k files of a unit, or all of them but one
SampleShapes(i, nd) ==
    LET fs == UnitFiles(i, nd)
    IN {{fs[j] : j \in 1 .. k} : k \in 0 .. Len(fs)} \cup
       {Range(fs) \ {fs[j]} : j \in DOMAIN fs}

\* names no run of this configuration writes: a snapshot of sample 0 at a
\* later time, a snapshot of an index past n_samples, a file of another kind
StrayFiles(nd) ==
    {DataName(0, "oxygen", DrawTime(nd)), DataName(NSamples, "oxygen", DrawTime(0)), OtherFile}

EnvDirectories(nd) ==
    {UNION {shape[i] : i \in Samples} \cup stray \cup table :
        shape \in {sh \in [Samples -> UNION {SampleShapes(i, nd) : i \in Samples}] :
                      \A i \in Samples : sh[i] \in SampleShapes(i, nd)},
        stray \in SUBSET StrayFiles(nd),
        table \in {{}, {DatasetFileName}}}

\* a resumption on a directory with any contents
InitEnv ==
    /\ n_draw \in DrawCounts
    /\ \E d \in EnvDirectories(n_draw) : files = [f \in d |-> "whole"]
    /\ runs = 0 /\ mode = "none" /\ pc = "idle" /\ process_number = 1
    /\ all_files = {} /\ missing_samples = {} /\ unit = NoUnits /\ written = {}
    /\ writers = NoWriters /\ started = NoneStarted
    /\ stops = 0
    /\ SimIdle /\ TabIdle /\ ParIdle /\ SmpIdle /\ MetIdle

NextEnv ==
    \/ \E p \in 1 .. MaxProc : StartMissing(p)
    \/ \E i \in Samples : StartUnit(i)
    \/ \E i \in Samples : SampleRaises(i)
    \/ \E i \in Samples : SaveFile(i)
    \/ \E i \in Samples : UnitKilled(i)
    \/ \E i \in Samples : SaveTruncated(i)
    \/ RunEnds
    \/ ProcessExit

SpecEnv == InitEnv /\ [][NextEnv]_vars


\* a row an earlier call left in the scalar table
EarlierRow == [key |-> KeyOf("mean absolute error", 350, "oxygen", "cell_cycle", 0), mean |-> Mean(<<Num(1)>>), std |-> Std(<<Num(1)>>)]

\* one call of similarity_between_matrix_per_difference on a dataset
InitPairs ==
    /\ dataset \in [Rows -> ParamValues]
    /\ metric = "MEAN_ABSOLUTE_ERROR"
    /\ difference \in Differences /\ tol \in Tolerances /\ iteration \in Iterations
    /\ spc = "start"
    /\ possible_param_values = <<>> /\ pairs_different_param = <<>>
    /\ loop_i = 0 /\ all_indexes_pairs = NoneArr
    /\ sampled = <<>> /\ results = <<>>
    /\ \/ TabIdle
       \/ /\ scalar_csv = UpsertScalar(Absent, EarlierRow.key, EarlierRow.mean, EarlierRow.std)
          /\ writes = 1
          /\ last_write = [k \in AllKeys |->
                             IF k = EarlierRow.key
                             THEN [set |-> TRUE, mean |-> EarlierRow.mean, std |-> EarlierRow.std]
                             ELSE NoWrite]
          /\ inserted = <<EarlierRow.key>> /\ matrix_npy = << >>
    /\ GenIdle /\ ParIdle /\ SmpIdle /\ MetIdle

NextPairs == FindPairs \/ LoopStep \/ RandomChoice \/ PoolMap \/ Persist

SpecPairs == InitPairs /\ [][NextPairs]_vars

\* scalar results of a sequence of calls
InitTable ==
    /\ dataset = [r \in Rows |-> 1]
    /\ metric = "MEAN_ABSOLUTE_ERROR"
    /\ difference = 0 /\ tol = 0 /\ iteration = 0
    /\ spc = "table"
    /\ possible_param_values = <<>> /\ pairs_different_param = <<>>
    /\ loop_i = 0 /\ all_indexes_pairs = NoneArr
    /\ sampled = <<>> /\ results = <<>>
    /\ TabIdle /\ GenIdle /\ ParIdle /\ SmpIdle /\ MetIdle

NextTable == \E key \in TableKeys, mean \in TableMeans, std \in TableStds :
                 WriteScalar(key, mean, std)

SpecTable == InitTable /\ [][NextTable]_vars

(* the tail of one call: what pool.map returned is filtered, aggregated, persisted *)

\* the largest number of sampled pairs
MaxBatch == 2

\* the floats a metric may give: np.abs(a - b).mean() and np.absolute(a - b)
\* are NaN or +inf where a snapshot is
MetricCells == {Num(1), Num(3), NaN, PosInf}

\* one result of metric m: a float, or a grid of the snapshot's shape
MetricResults(m) ==
    IF m = "IMAGE_ABSOLUTE_DIFFERENCE"
    THEN {Grid(c) : c \in [1 .. Product(GridShape) -> MetricCells]}
    ELSE MetricCells

\* what pool.map returns for up to MaxBatch pairs
Batches(m) == UNION {[1 .. n -> MetricResults(m)] : n \in 0 .. MaxBatch}

\* the scalar table an earlier call left
TabEarlier ==
    /\ scalar_csv = UpsertScalar(Absent, EarlierRow.key, EarlierRow.mean, EarlierRow.std)
    /\ writes = 1
    /\ last_write = [k \in AllKeys |->
                       IF k = EarlierRow.key
                       THEN [set |-> TRUE, mean |-> EarlierRow.mean, std |-> EarlierRow.std]
                       ELSE NoWrite]
    /\ inserted = <<EarlierRow.key>> /\ matrix_npy = << >>

InitAgg ==
    /\ dataset = [r \in Rows |-> IF r = 0 THEN 1 ELSE 2]
    /\ metric \in {"MEAN_ABSOLUTE_ERROR", "IMAGE_ABSOLUTE_DIFFERENCE"}
    /\ difference \in {0, 1} /\ tol = 0
    /\ results \in Batches(metric)
    /\ iteration = Len(results)
    /\ sampled = [k \in 1 .. Len(results) |-> <<0, 1>>]
    /\ spc = "persist"
    /\ possible_param_values = <<1, 2>> /\ pairs_different_param = <<>>
    /\ loop_i = 0 /\ all_indexes_pairs = Arr(sampled)
    /\ (TabIdle \/ TabEarlier)
    /\ GenIdle /\ ParIdle /\ SmpIdle /\ MetIdle

NextAgg == Persist

SpecAgg == InitAgg /\ [][NextAgg]_vars

(* ========= generate_parameters and generate_sample (generator) ========= *)

(* Cells of the range table are kept in halves (a cell 3 is 1.5), values  *)
(* of an int column in whole units, values of a float column in halves.   *)

\* the rows of the range table, in iterrows order
ParamNames == <<"cell_cycle", "average_healthy_glucose_absorption">>

\* cells of a row of Type int (whole numbers) and of another Type
IntCells == {2, 4}
FloatCells == {2, 3}

\* the range tables: a row of Type int has whole cells
RangeTables ==
    {t \in [1 .. Len(ParamNames) ->
               [name : Range(ParamNames), type : {"int", "float"},
                default : IntCells \cup FloatCells,
                min : IntCells \cup FloatCells, max : IntCells \cup FloatCells]] :
        \A k \in DOMAIN t :
            /\ t[k].name = ParamNames[k]
            /\ LET cells == IF t[k].type = "int" THEN IntCells ELSE FloatCells
               IN t[k].default \in cells /\ t[k].min \in cells /\ t[k].max \in cells
            /\ t[k].type = "float" => t[k].min <= t[k].max}

\* int(x) of a non-negative cell
IntOf(c) == c \div 2

\* float(x) of a cell
FloatOf(c) == c

\* np.full(self.n_samples, value)
Full(value) == [r \in 1 .. NSamples |-> value]

\* mutant: the upper bound one too far
RandintHighWide(row) == IntOf(row.max) + 2

\* high of np.random.randint: int(row["Maximum"]) + 1, exclusive
RandintHigh(row) == IntOf(row.max) + 1

\* the arrays np.random.randint(low, high, size=n_samples) may return
Randint(low, high) == [1 .. NSamples -> low .. high - 1]

\* the arrays np.random.uniform(low, high, size=n_samples) may return
Uniform(low, high) == [1 .. NSamples -> low .. high]

\* one iteration of the loop of generate_parameters
ParamRow ==
    /\ ppc = "loop" /\ row_i < Len(parameter_data)
    /\ LET row == parameter_data[row_i + 1]
       IN IF row.name \notin parameters_of_interest
          THEN /\ parameters' = Put(parameters, row.name,
                       IF row.type = "int"
                       THEN [dtype |-> "int", data |-> Full(IntOf(row.default))]
                       ELSE [dtype |-> "float", data |-> Full(FloatOf(row.default))])
               /\ ppc' = ppc
          ELSE IF row.type = "int"
          THEN IF IntOf(row.min) >= RandintHigh(row)
               THEN \* ValueError: low >= high
                    /\ ppc' = "raised" /\ UNCHANGED parameters
               ELSE /\ \E a \in Randint(IntOf(row.min), RandintHigh(row)) :
                         parameters' = Put(parameters, row.name, [dtype |-> "int", data |-> a])
                    /\ ppc' = ppc
          ELSE /\ \E a \in Uniform(FloatOf(row.min), FloatOf(row.max)) :
                    parameters' = Put(parameters, row.name, [dtype |-> "float", data |-> a])
               /\ ppc' = ppc
    /\ row_i' = row_i + 1
    /\ UNCHANGED <<parameter_data, parameters_of_interest, genVars, simVars, tabVars,
                   smpVars, metVars>>

\* return parameters
ParamsReturn ==
    /\ ppc = "loop" /\ row_i = Len(parameter_data)
    /\ ppc' = "returned"
    /\ UNCHANGED <<parameter_data, parameters_of_interest, parameters, row_i,
                   genVars, simVars, tabVars, smpVars, metVars>>

\* simu.cycle(h): the simulation advances by h hours
Cycle(time, h) == time + h

\* one capture of the four channel accessors: the row simulated and the
\* hours advanced when the accessor ran
Capture(r, time) == [ty \in Range(ChannelTypes) |-> [row |-> r, at |-> time]]

\* sample[key] = draw: an existing key keeps its position
DictSet(d, key, draw) ==
    IF \E k \in DOMAIN d : d[k].key = key
    THEN [k \in DOMAIN d |-> IF d[k].key = key THEN [key |-> key, draw |-> draw] ELSE d[k]]
    ELSE Append(d, [key |-> key, draw |-> draw])

\* generate_sample(row r of the table) up to its loop: the Simulation is
\* built and advanced to start_draw
SampleStart(r) ==
    /\ ppc = "returned" /\ gpc = "idle"
    /\ parameter' = r
    /\ sample' = <<>>
    /\ simu_time' = Cycle(0, StartDraw)
    /\ draw_i' = 0
    /\ gpc' = "loop"
    /\ UNCHANGED <<genVars, simVars, tabVars, parVars, metVars>>

\* one iteration of the loop of generate_sample: the capture, then the advance
Draw ==
    /\ gpc = "loop" /\ draw_i < n_draw
    /\ sample' = DictSet(sample, DrawTime(draw_i), Capture(parameter, simu_time))
    /\ simu_time' = Cycle(simu_time, Interval)
    /\ draw_i' = draw_i + 1
    /\ UNCHANGED <<parameter, gpc, genVars, simVars, tabVars, parVars, metVars>>

\* return sample
SampleReturn ==
    /\ gpc = "loop" /\ draw_i = n_draw
    /\ gpc' = "returned"
    /\ UNCHANGED <<parameter, simu_time, sample, draw_i,
                   genVars, simVars, tabVars, parVars, metVars>>

\* generate_parameters on a range table, then generate_sample on one row
InitSample ==
    /\ parameter_data \in RangeTables
    /\ parameters_of_interest \in SUBSET Range(ParamNames)
    /\ parameters = << >> /\ row_i = 0 /\ ppc = "loop"
    /\ parameter = 0 /\ simu_time = 0 /\ sample = <<>> /\ draw_i = 0 /\ gpc = "idle"
    /\ files = << >> /\ runs = 0
    /\ n_draw \in DrawCounts
    /\ mode = "none" /\ pc = "off" /\ process_number = 1
    /\ all_files = {} /\ missing_samples = {} /\ unit = NoUnits /\ written = {}
    /\ writers = NoWriters /\ started = NoneStarted
    /\ stops = 0
    /\ SimIdle /\ TabIdle /\ MetIdle

NextSample ==
    \/ ParamRow
    \/ ParamsReturn
    \/ \E r \in Samples : SampleStart(r)
    \/ Draw
    \/ SampleReturn

SpecSample == InitSample /\ [][NextSample]_vars

(* ============ simulation_similarity_analysis/metrics.py ================ *)

\* the largest number of elements of a grid
MaxCells == 3

\* the labels of a categorical grid
Labels == {0, 1}

\* np.count_nonzero(flatten_image1 == flatten_image2)
NumberOfEqual(a, b) == Cardinality({k \in DOMAIN a : a[k] = b[k]})

\* dice_function on the flattened grids: the fraction it returns
DiceFunction(a, b) == [num |-> 2 * NumberOfEqual(a, b), den |-> Len(a) * Len(b)]

\* two grids of one shape
InitDice ==
    /\ \E n \in 1 .. MaxCells : image1 \in [1 .. n -> Labels] /\ image2 \in [1 .. n -> Labels]
    /\ dice_value = [num |-> 0, den |-> 1] /\ mpc = "call"
    /\ GenIdle /\ SimIdle /\ TabIdle /\ ParIdle /\ SmpIdle

\* dice_function(image1, image2)
DiceCall ==
    /\ mpc = "call"
    /\ dice_value' = DiceFunction(image1, image2)
    /\ mpc' = "returned"
    /\ UNCHANGED <<image1, image2, genVars, simVars, tabVars, parVars, smpVars>>

NextDice == DiceCall

SpecDice == InitDice /\ [][NextDice]_vars

(* ------------------------ claims: the generator ------------------------ *)

\* the snapshot names present for sample index i
SnapshotsOf(i) == {f \in DOMAIN files : f.match /\ f.itxt = Str(i)}

\* one name per channel type and per timestep start_draw + k * interval
ExpectedSnapshots(i) ==
    {[match |-> TRUE, itxt |-> Str(i), type |-> ty, time |-> StartDraw + k * Interval] :
        ty \in Range(ChannelTypes), k \in 0 .. n_draw - 1}

\* the per-sample count check of a scan of the directory as it is now
CountCheckPasses(i) == CountOf(DOMAIN files \ {DatasetFileName}, i) = n_draw * ChannelCount

\* C1: when a full generation (generate_dataset, or
\* generate_dataset_multi_process with any pool size) has completed, every
\* sample index 0..n_samples-1 has exactly n_draw * 4 snapshot files, one per
\* channel type and timestep start_draw + k * interval, each written whole.
C1_FullGenerationComplete ==
    (mode \in {"seq", "multi"} /\ pc = "done") =>
        \A i \in Samples :
            /\ SnapshotsOf(i) = ExpectedSnapshots(i)
            /\ Cardinality(SnapshotsOf(i)) = n_draw * 4
            /\ \A f \in SnapshotsOf(i) : files[f] = "whole"

\* a pool of two has completed a full generation of two draws per sample
\* over the directory an earlier, interrupted run left
C1_Witness ==
    /\ mode = "multi" /\ pc = "done" /\ process_number = 2
    /\ n_draw = 2 /\ runs = 2 /\ stops = 1

\* C2 (as claimed): for any contents of the directory the resumption
\* submits exactly the indices whose snapshot count differs from n_draw * 4.
C2_ScanSubmitsExactlyIncomplete ==
    (mode = "resume" /\ DatasetFileName \in DOMAIN files) =>
        /\ pc # "raised"
        /\ missing_samples =
             {i \in Samples :
                 Cardinality({f \in all_files : f.match /\ f.itxt = Str(i)}) # n_draw * 4}

\* C3 (as claimed): when a resumption has regenerated every sample it
\* detected and no worker failed, the count check passes for every index,
\* whatever the directory held before.
C3_ResumptionCompletes ==
    (mode = "resume" /\ pc = "done") => \A i \in Samples : CountCheckPasses(i)

\* sample i passed the count check of the scan of this resumption
CompleteAtScan(i) == CountOf(all_files', i) = n_draw * 4

\* C4: a resumption leaves the parameter table and every snapshot file of
\* a sample whose count was n_draw * 4 at its scan as they were, and saves
\* only snapshot files of the indices it detected as missing.
C4_ResumptionFrame ==
    [][mode' = "resume" =>
         /\ \A f \in DOMAIN files :
               (f = DatasetFileName \/
                \E i \in Samples : f.match /\ f.itxt = Str(i) /\ CompleteAtScan(i))
               => (f \in DOMAIN files' /\ files'[f] = files[f] /\ f \notin written')
         /\ \A f \in written' :
               \E i \in Samples : f.match /\ f.itxt = Str(i) /\ ~CompleteAtScan(i)]_vars

\* a resumption has saved a file while another sample was complete at its scan
C4_Witness ==
    /\ mode = "resume" /\ written # {}
    /\ \E i \in Samples : CountOf(all_files, i) = n_draw * 4 /\ SnapshotsOf(i) # {}

\* C5 (as claimed): a generation unit that stopped before it saved all its
\* files leaves its sample failing the count check of the next scan.
C5_StoppedUnitLooksMissing ==
    \A i \in Samples : unit[i].st = "failed" => ~CountCheckPasses(i)


\* C16: in every interleaving of the workers of one run, each file saved
\* was saved by one generation unit only, is a snapshot named with that
\* unit's sample index and is not the parameter table; each submitted index
\* is handled by one unit, and no other index by any.
C16_WritesPartitioned ==
    /\ \A f \in DOMAIN writers :
          /\ Cardinality(writers[f]) = 1
          /\ f # DatasetFileName /\ f.match
          /\ \A i \in writers[f] : f.itxt = Str(i)
    /\ \A i \in Samples : started[i] <= 1
    /\ \A i \in Samples : started[i] = 1 => i \in missing_samples

\* two workers are saving at the same time and each has saved a file
C16_Witness ==
    \E i, j \in Running :
        /\ i # j /\ unit[i].k >= 1 /\ unit[j].k >= 1
        /\ \E f, g \in DOMAIN writers : i \in writers[f] /\ j \in writers[g]


(* ------------------------ claims: the analysis ------------------------- *)

\* C6: every index pair handed to the metric evaluation has two different
\* indices in ascending order, for every table, difference and tolerance.
C6_SampledPairsOrdered ==
    spc \in {"map", "persist", "done"} =>
        \A k \in DOMAIN sampled : sampled[k][1] # sampled[k][2] /\ sampled[k][1] <= sampled[k][2]

\* pairs were sampled for difference 0, where a value is paired with itself
C6_Witness ==
    /\ spc = "map" /\ Len(sampled) > 0 /\ difference = 0 /\ tol = 0

\* C7: the accumulated candidate array holds no unordered index pair twice.
C7_CandidatesDistinct ==
    (spc = "loop" /\ ~all_indexes_pairs.none) =>
        \A x, y \in DOMAIN all_indexes_pairs.arr :
            x # y => {all_indexes_pairs.arr[x][1], all_indexes_pairs.arr[x][2]}
                       # {all_indexes_pairs.arr[y][1], all_indexes_pairs.arr[y][2]}

\* two qualifying value pairs were processed and each added index pairs
C7_Witness ==
    /\ spc = "loop" /\ loop_i = Len(pairs_different_param) /\ loop_i >= 2
    /\ Len(all_indexes_pairs.arr) > Len(IndexPairs(pairs_different_param[1]))
    /\ Len(IndexPairs(pairs_different_param[1])) > 0

\* the value pairs of array a within t of difference d, first index <= second
WantedValuePairs(a, d, t) ==
    LET gap(x, y) == IF x >= y THEN x - y ELSE y - x
        near(g) == g - d <= t /\ d - g <= t
    IN {<<a[pq[1]], a[pq[2]]>> :
           pq \in {x \in (DOMAIN a) \X (DOMAIN a) : x[1] <= x[2] /\ near(gap(a[x[1]], a[x[2]]))}}

\* C8: for an array of distinct values find_value_pairs returns exactly the
\* pairs (a[p], a[q]) with p <= q and | |a[p] - a[q]| - d | <= tol, each once
\* and none mirrored; a pair (v, v) only when d <= tol; for the values
\* 1.0, 1.5, 2.0 (here 1, 2, 3 and 100, 150, 200), d = 0.5 and a tolerance
\* below the spacing, the pairs are (1.0, 1.5) and (1.5, 2.0).
C8_FindValuePairsExact ==
    (spc = "loop" /\ loop_i = 0) =>
        LET a == possible_param_values
            got == pairs_different_param
        IN /\ Range(got) = WantedValuePairs(a, difference, tol)
           /\ Cardinality(Range(got)) = Len(got)
           /\ \A x \in Range(got) : x[1] # x[2] => <<x[2], x[1]>> \notin Range(got)
           /\ \A x \in Range(got) : x[1] = x[2] => difference <= tol
           /\ (a = <<1, 2, 3>> /\ difference = 1 /\ tol = 0) => got = << <<1, 2>>, <<2, 3>> >>
           /\ FindValuePairs(<<100, 150, 200>>, 50, 1) = << <<100, 150>>, <<150, 200>> >>

\* find_value_pairs has run on the three values with the spacing as difference
C8_Witness ==
    /\ spc = "loop" /\ possible_param_values = <<1, 2, 3>>
    /\ difference = 1 /\ tol = 0 /\ Len(pairs_different_param) = 2

\* C9 (as claimed): with an empty candidate set the call fails before any
\* metric is evaluated and writes nothing, for every sample size.
C9_EmptyCandidatesFail ==
    (spc \in {"map", "persist", "done", "error"}
       /\ (all_indexes_pairs.none \/ Len(all_indexes_pairs.arr) = 0)) =>
        /\ spc = "error"
        /\ scalar_csv \in {Absent, UpsertScalar(Absent, EarlierRow.key, EarlierRow.mean, EarlierRow.std)}

BatchCells == ArrayOf(results).cells
FiniteCells == SelectSeq(BatchCells, LAMBDA x : ~x.nan /\ ~x.inf)

\* C11 (as claimed): the mean and std a call persists are those of the
\* finite results of its batch: NaN, +inf and -inf are all removed first.
\* Stated for a scalar metric and a batch with a finite result.
C11_NonFiniteRemoved ==
    (spc = "done" /\ metric = "MEAN_ABSOLUTE_ERROR" /\ Len(FiniteCells) > 0) =>
        /\ last_write[CallKey(difference)].mean = Mean(FiniteCells)
        /\ last_write[CallKey(difference)].std = Std(FiniteCells)

\* C12 (as claimed): a call whose batch is emptied by the filter (every
\* result NaN) does not complete and leaves no NaN mean or std, in the scalar table or
\* in a matrix artifact.  Stated for a scalar metric.
C12_EmptyFilterFails ==
    (metric = "MEAN_ABSOLUTE_ERROR" /\ Len(results) > 0 /\ DropNaN(BatchCells) = <<>>) =>
        /\ spc # "done"
        /\ \A k \in DOMAIN scalar_csv.rows :
              ~scalar_csv.rows[k].mean.nan /\ ~scalar_csv.rows[k].std.nan
        /\ \A f \in DOMAIN matrix_npy :
              \A j \in DOMAIN matrix_npy[f].cells : ~matrix_npy[f].cells[j].nan

\* C13 (as claimed): after a call with a per-pixel metric, mean_ and std_
\* artifacts of the snapshot's shape exist under the call's key and the
\* scalar table is as it was; after a call with a scalar metric the table
\* has the key's row and no matrix artifact exists.  Stated for batches of
\* finite results.
C13_PersistByShape ==
    (spc = "done" /\ Len(results) > 0 /\ Len(FiniteCells) = Len(BatchCells)) =>
        IF metric = "IMAGE_ABSOLUTE_DIFFERENCE"
        THEN /\ MatrixName("mean", CallKey(difference)) \in DOMAIN matrix_npy
             /\ MatrixName("std", CallKey(difference)) \in DOMAIN matrix_npy
             /\ matrix_npy[MatrixName("mean", CallKey(difference))].shape = GridShape
             /\ matrix_npy[MatrixName("std", CallKey(difference))].shape = GridShape
             /\ \A k \in DOMAIN scalar_csv.rows : scalar_csv.rows[k].key # CallKey(difference)
        ELSE /\ \E k \in DOMAIN scalar_csv.rows : scalar_csv.rows[k].key = CallKey(difference)
             /\ matrix_npy = << >>


(* ------------------------- claims: the metrics ------------------------- *)

\* C14 (as claimed): the Dice metric of a non-empty grid with itself is 1,
\* for every grid size.
C14_DiceSelfIsOne ==
    (mpc = "returned" /\ image1 = image2) => dice_value.num = dice_value.den


(* ------------- claims: generate_parameters, generate_sample ------------ *)

\* the row of the range table named `name`
RowOf(name) == parameter_data[CHOOSE k \in DOMAIN parameter_data : parameter_data[k].name = name]

\* C15: generate_parameters returns one column per row of the range table,
\* each of n_samples entries; a parameter not of interest has its default
\* value in every entry; an int parameter of interest has in every entry a
\* value between Minimum and Maximum, both included.
C15_ParametersTable ==
    ppc = "returned" =>
        /\ DOMAIN parameters = {parameter_data[k].name : k \in DOMAIN parameter_data}
        /\ \A name \in DOMAIN parameters :
              LET col == parameters[name]
                  row == RowOf(name)
              IN /\ Len(col.data) = NSamples
                 /\ name \notin parameters_of_interest =>
                       \A r \in DOMAIN col.data :
                           (IF row.type = "int" THEN 2 * col.data[r] ELSE col.data[r]) = row.default
                 /\ (name \in parameters_of_interest /\ row.type = "int") =>
                       \A r \in DOMAIN col.data :
                           row.min <= 2 * col.data[r] /\ 2 * col.data[r] <= row.max

\* an int parameter of interest drew both its Minimum and its Maximum, next
\* to a parameter not of interest
C15_Witness ==
    /\ ppc = "returned"
    /\ \E name \in parameters_of_interest :
          /\ RowOf(name).type = "int" /\ RowOf(name).min < RowOf(name).max
          /\ \E r \in DOMAIN parameters[name].data : 2 * parameters[name].data[r] = RowOf(name).min
          /\ \E r \in DOMAIN parameters[name].data : 2 * parameters[name].data[r] = RowOf(name).max
    /\ \E name \in DOMAIN parameters : name \notin parameters_of_interest

\* C18: every draw stored in the sample was captured, on all four channel
\* types, when the simulation had advanced exactly the hours of its key;
\* the returned mapping has exactly the n_draw keys start_draw + k * interval.
C18_SampleTiming ==
    /\ \A k \in DOMAIN sample :
          /\ DOMAIN sample[k].draw = Range(ChannelTypes)
          /\ \A ty \in Range(ChannelTypes) :
                sample[k].draw[ty].at = sample[k].key /\ sample[k].draw[ty].row = parameter
          /\ sample[k].key = StartDraw + (k - 1) * Interval
    /\ gpc = "loop" => simu_time = StartDraw + draw_i * Interval
    /\ gpc = "returned" =>
          /\ Len(sample) = n_draw
          /\ {sample[k].key : k \in DOMAIN sample} =
                 {StartDraw + k * Interval : k \in 0 .. n_draw - 1}

\* a sample of two draws was returned
C18_Witness ==
    /\ gpc = "returned" /\ n_draw = 2 /\ Len(sample) = 2


(* ---------------------- claims: the scalar table ----------------------- *)

\* the position of a key in the order of first writes
FirstWritten(key) == CHOOSE k \in DOMAIN inserted : inserted[k] = key

\* C17 (as claimed): the rows of the scalar table are stored in the order
\* in which their keys were first written.
C17_InsertionOrder ==
    \A x, y \in DOMAIN scalar_csv.rows :
        x < y => FirstWritten(scalar_csv.rows[x].key) < FirstWritten(scalar_csv.rows[y].key)

====
